---------------------------- MODULE Spec2Model ----------------------------
(***************************************************************************)
(* A model of the AP grader agent: the structured-output recovery layer    *)
(* (prompts.py), the grading retry loop (langchain_integration.py) and the *)
(* build/test harnesses (tools.py).                                        *)
(*                                                                         *)
(* Text is modelled as a sequence of characters.  A character is a one     *)
(* character string; the four characters that cannot be written inside a   *)
(* string literal have names (DQ, BT, NL, BSL).                            *)
(***************************************************************************)
EXTENDS Integers, Sequences, FiniteSets, TLC

(***************************************************************************)
(* Characters and Python's str helpers                                     *)
(***************************************************************************)
DQ == "DQ"      \* the double quote
BT == "BT"      \* the backtick
NL == "NL"      \* the line feed
BSL == "BSL"    \* the backslash

Digits == <<"0", "1", "2", "3", "4", "5", "6", "7", "8", "9">>

DigitChars == {Digits[i] : i \in 1..10}

DigitValue(c) == (CHOOSE i \in 1..10 : Digits[i] = c) - 1

LowerChars == {"a", "b", "c", "d", "e", "f", "g", "h", "i", "j", "k", "l", "m",
               "n", "o", "p", "q", "r", "s", "t", "u", "v", "w", "x", "y", "z"}

UpperChars == {"A", "B", "C", "D", "E", "F", "G", "H", "I", "J", "K", "L", "M",
               "N", "O", "P", "Q", "R", "S", "T", "U", "V", "W", "X", "Y", "Z"}

\* [a-zA-Z0-9] of the fence pattern
AlnumChars == LowerChars \cup UpperChars \cup DigitChars

\* what str.strip(), str.split() and the regex \s treat as white space
WhiteChars == {" ", NL}

\* s[i:] of Python with a 1-based i
From(s, i) == SubSeq(s, i, Len(s))

StartsWith(s, p) == Len(p) <= Len(s) /\ SubSeq(s, 1, Len(p)) = p

EndsWith(s, p) == Len(p) <= Len(s) /\ SubSeq(s, Len(s) - Len(p) + 1, Len(s)) = p

\* p in s
Contains(s, p) == \E i \in 1..(Len(s) - Len(p) + 1) : SubSeq(s, i, i + Len(p) - 1) = p

RECURSIVE LStripSet(_, _)
LStripSet(s, cs) == IF s # <<>> /\ Head(s) \in cs THEN LStripSet(Tail(s), cs) ELSE s

RECURSIVE RStripSet(_, _)
RStripSet(s, cs) ==
    IF s # <<>> /\ s[Len(s)] \in cs THEN RStripSet(SubSeq(s, 1, Len(s) - 1), cs) ELSE s

\* str.strip(chars)
StripSet(s, cs) == RStripSet(LStripSet(s, cs), cs)

\* str.strip()
Strip(s) == StripSet(s, WhiteChars)

\* the index of the first character of s at or after i that is not in cs
RECURSIVE SkipSet(_, _, _)
SkipSet(s, i, cs) == IF i <= Len(s) /\ s[i] \in cs THEN SkipSet(s, i + 1, cs) ELSE i

\* the index of the first character of s at or after i that is in cs
RECURSIVE FindSet(_, _, _)
FindSet(s, i, cs) == IF i <= Len(s) /\ s[i] \notin cs THEN FindSet(s, i + 1, cs) ELSE i

\* str.split(sep) for a one character separator: every piece, empty ones too
RECURSIVE SplitOn(_, _)
SplitOn(s, sep) ==
    LET j == FindSet(s, 1, {sep})
    IN  IF j > Len(s) THEN <<s>>
        ELSE <<SubSeq(s, 1, j - 1)>> \o SplitOn(From(s, j + 1), sep)

\* str.split(): the maximal runs of characters that are not white space
RECURSIVE SplitWhite(_)
SplitWhite(s) ==
    LET i == SkipSet(s, 1, WhiteChars)
        j == FindSet(s, i, WhiteChars)
    IN  IF i > Len(s) THEN <<>>
        ELSE <<SubSeq(s, i, j - 1)>> \o SplitWhite(From(s, j))

\* str(n) for an integer
RECURSIVE NatToText(_)
NatToText(n) == IF n < 10 THEN <<Digits[n + 1]>>
                ELSE NatToText(n \div 10) \o <<Digits[(n % 10) + 1]>>

IntToText(n) == IF n < 0 THEN <<"-">> \o NatToText(0 - n) ELSE NatToText(n)

RECURSIVE DigitsValue(_, _)
DigitsValue(s, acc) ==
    IF s = <<>> THEN acc ELSE DigitsValue(Tail(s), acc * 10 + DigitValue(Head(s)))

\* int(token): a record [ok, v]; ok is FALSE where Python raises ValueError
PyInt(tok) ==
    LET t == Strip(tok)
        signed == t # <<>> /\ Head(t) \in {"-", "+"}
        body == IF signed THEN Tail(t) ELSE t
    IN  IF body # <<>> /\ \A i \in 1..Len(body) : body[i] \in DigitChars
        THEN [ok |-> TRUE,
              v |-> IF signed /\ Head(t) = "-" THEN 0 - DigitsValue(body, 0)
                    ELSE DigitsValue(body, 0)]
        ELSE [ok |-> FALSE, v |-> 0]

(***************************************************************************)
(* JSON values, json.loads and json.dumps                                  *)
(*                                                                         *)
(* A value is a record [t, n, s, c]: its type t, and its content in the    *)
(* field of that type: a number ("num", the integer n), a string ("str",   *)
(* its characters s), a dict ("obj", its items [k, v] in insertion order   *)
(* in c, the keys distinct), a list ("arr", its elements in c as items     *)
(* with an empty key), a bool (n is 1 or 0), or None ("null").             *)
(***************************************************************************)
Item(k, val) == [k |-> k, v |-> val]

Num(n) == [t |-> "num", n |-> n, s |-> <<>>, c |-> <<>>]

Str(s) == [t |-> "str", n |-> 0, s |-> s, c |-> <<>>]

Obj(items) == [t |-> "obj", n |-> 0, s |-> <<>>, c |-> items]

Arr(elems) ==
    [t |-> "arr", n |-> 0, s |-> <<>>, c |-> [i \in 1..Len(elems) |-> Item(<<>>, elems[i])]]

Bool(b) == [t |-> "bool", n |-> IF b THEN 1 ELSE 0, s |-> <<>>, c |-> <<>>]

None == [t |-> "null", n |-> 0, s |-> <<>>, c |-> <<>>]

\* the elements of a list
Elems(x) == [i \in 1..Len(x.c) |-> x.c[i].v]

\* isinstance(x, dict)
IsDict(x) == x.t = "obj"

\* the keys of a dict
Keys(d) == {d.c[i].k : i \in 1..Len(d.c)}

\* d[k]
Get(d, k) == d.c[CHOOSE i \in 1..Len(d.c) : d.c[i].k = k].v

\* d[k] = val on the item list of a dict: a key already there keeps its place
SetItem(items, k, val) ==
    IF \E i \in 1..Len(items) : items[i].k = k
    THEN [i \in 1..Len(items) |-> IF items[i].k = k THEN Item(k, val) ELSE items[i]]
    ELSE Append(items, Item(k, val))

Fail == [ok |-> FALSE, v |-> None, i |-> 0]

Ok(val, i) == [ok |-> TRUE, v |-> val, i |-> i]

\* the characters of a string literal after its opening quote: the decoder's
\* scanstring in strict mode, with the escapes \" \\ \n
RECURSIVE ScanString(_, _, _)
ScanString(s, i, acc) ==
    IF i > Len(s) THEN Fail
    ELSE IF s[i] = DQ THEN Ok(Str(acc), i + 1)
    ELSE IF s[i] = NL THEN Fail
    ELSE IF s[i] = BSL
         THEN IF i + 1 > Len(s) THEN Fail
              ELSE IF s[i + 1] = DQ THEN ScanString(s, i + 2, Append(acc, DQ))
              ELSE IF s[i + 1] = BSL THEN ScanString(s, i + 2, Append(acc, BSL))
              ELSE IF s[i + 1] = "n" THEN ScanString(s, i + 2, Append(acc, NL))
              ELSE Fail
    ELSE ScanString(s, i + 1, Append(acc, s[i]))

\* an integer literal at i: -?(0|[1-9][0-9]*)
ScanNumber(s, i) ==
    LET neg == s[i] = "-"
        b == IF neg THEN i + 1 ELSE i
        e == IF b <= Len(s) /\ s[b] = "0" THEN b + 1 ELSE SkipSet(s, b, DigitChars)
        n == DigitsValue(SubSeq(s, b, e - 1), 0)
    IN  IF e = b THEN Fail ELSE Ok(Num(IF neg THEN 0 - n ELSE n), e)

Literal(s, i, word, val) ==
    IF StartsWith(From(s, i), word) THEN Ok(val, i + Len(word)) ELSE Fail

RECURSIVE ScanValue(_, _), ScanItems(_, _, _), ScanElems(_, _, _)
\* the decoder's scan_once: the value that starts at i
ScanValue(s, i) ==
    IF i > Len(s) THEN Fail
    ELSE IF s[i] = DQ THEN ScanString(s, i + 1, <<>>)
    ELSE IF s[i] = "{"
         THEN LET j == SkipSet(s, i + 1, WhiteChars)
              IN  IF j <= Len(s) /\ s[j] = "}" THEN Ok(Obj(<<>>), j + 1)
                  ELSE ScanItems(s, j, <<>>)
    ELSE IF s[i] = "["
         THEN LET j == SkipSet(s, i + 1, WhiteChars)
              IN  IF j <= Len(s) /\ s[j] = "]" THEN Ok(Arr(<<>>), j + 1)
                  ELSE ScanElems(s, j, <<>>)
    ELSE IF s[i] = "n" THEN Literal(s, i, <<"n", "u", "l", "l">>, None)
    ELSE IF s[i] = "t" THEN Literal(s, i, <<"t", "r", "u", "e">>, Bool(TRUE))
    ELSE IF s[i] = "f" THEN Literal(s, i, <<"f", "a", "l", "s", "e">>, Bool(FALSE))
    ELSE IF s[i] = "-" \/ s[i] \in DigitChars THEN ScanNumber(s, i)
    ELSE Fail

\* the decoder's JSONObject from a property name at i on
ScanItems(s, i, items) ==
    IF i > Len(s) \/ s[i] # DQ THEN Fail
    ELSE LET key == ScanString(s, i + 1, <<>>)
             c == IF key.ok THEN SkipSet(s, key.i, WhiteChars) ELSE 0
             val == IF key.ok /\ c <= Len(s) /\ s[c] = ":"
                    THEN ScanValue(s, SkipSet(s, c + 1, WhiteChars))
                    ELSE Fail
             e == IF val.ok THEN SkipSet(s, val.i, WhiteChars) ELSE 0
         IN  IF ~val.ok \/ e > Len(s) THEN Fail
             ELSE IF s[e] = "}" THEN Ok(Obj(SetItem(items, key.v.s, val.v)), e + 1)
             ELSE IF s[e] = ","
                  THEN ScanItems(s, SkipSet(s, e + 1, WhiteChars),
                                 SetItem(items, key.v.s, val.v))
             ELSE Fail

\* the decoder's JSONArray from an element at i on
ScanElems(s, i, elems) ==
    LET val == ScanValue(s, i)
        e == IF val.ok THEN SkipSet(s, val.i, WhiteChars) ELSE 0
    IN  IF ~val.ok \/ e > Len(s) THEN Fail
        ELSE IF s[e] = "]" THEN Ok(Arr(Append(elems, val.v)), e + 1)
        ELSE IF s[e] = ","
             THEN ScanElems(s, SkipSet(s, e + 1, WhiteChars), Append(elems, val.v))
        ELSE Fail

\* json.loads(s): [ok, v]; ok is FALSE where it raises JSONDecodeError
JsonLoads(s) ==
    LET r == ScanValue(s, SkipSet(s, 1, WhiteChars))
    IN  IF r.ok /\ SkipSet(s, r.i, WhiteChars) = Len(s) + 1
        THEN [ok |-> TRUE, v |-> r.v]
        ELSE [ok |-> FALSE, v |-> None]

RECURSIVE EscapeText(_)
EscapeText(s) ==
    IF s = <<>> THEN <<>>
    ELSE (IF Head(s) = DQ THEN <<BSL, DQ>>
          ELSE IF Head(s) = BSL THEN <<BSL, BSL>>
          ELSE IF Head(s) = NL THEN <<BSL, "n">>
          ELSE <<Head(s)>>) \o EscapeText(Tail(s))

RECURSIVE JsonDumps(_), DumpItems(_), DumpElems(_)
\* json.dumps(x) with the default separators
JsonDumps(x) ==
    IF x.t = "num" THEN IntToText(x.n)
    ELSE IF x.t = "str" THEN <<DQ>> \o EscapeText(x.s) \o <<DQ>>
    ELSE IF x.t = "obj" THEN <<"{">> \o DumpItems(x.c) \o <<"}">>
    ELSE IF x.t = "arr" THEN <<"[">> \o DumpElems(Elems(x)) \o <<"]">>
    ELSE IF x.t = "bool"
         THEN (IF x.n = 1 THEN <<"t", "r", "u", "e">> ELSE <<"f", "a", "l", "s", "e">>)
    ELSE <<"n", "u", "l", "l">>

DumpItems(items) ==
    IF items = <<>> THEN <<>>
    ELSE <<DQ>> \o EscapeText(items[1].k) \o <<DQ, ":", " ">> \o JsonDumps(items[1].v)
         \o (IF Len(items) > 1 THEN <<",", " ">> \o DumpItems(Tail(items)) ELSE <<>>)

DumpElems(elems) ==
    IF elems = <<>> THEN <<>>
    ELSE JsonDumps(elems[1])
         \o (IF Len(elems) > 1 THEN <<",", " ">> \o DumpElems(Tail(elems)) ELSE <<>>)

(***************************************************************************)
(* prompts.py: the response recovery parser                                *)
(***************************************************************************)
Fence == <<BT, BT, BT>>

\* re.sub(r"^```[a-zA-Z0-9]*\n", "", t)
StripOpeningFence(t) ==
    LET j == SkipSet(t, Len(Fence) + 1, AlnumChars)
    IN  IF StartsWith(t, Fence) /\ j <= Len(t) /\ t[j] = NL THEN From(t, j + 1) ELSE t

\* re.sub(r"\n```$", "", t): $ is the end of the text, or the place before a
\* line feed that ends it
StripClosingFence(t) ==
    IF EndsWith(t, <<NL>> \o Fence) THEN SubSeq(t, 1, Len(t) - 4)
    ELSE IF EndsWith(t, <<NL>> \o Fence \o <<NL>>) THEN SubSeq(t, 1, Len(t) - 5) \o <<NL>>
    ELSE t

\* re.sub(r",\s*(\}|\])", r"\1", s): a comma, the white space after it and a
\* closing brace or bracket become the brace or bracket, wherever they stand
RECURSIVE RemoveTrailingCommas(_)
RemoveTrailingCommas(s) ==
    IF s = <<>> THEN <<>>
    ELSE LET j == SkipSet(s, 2, WhiteChars)
         IN  IF Head(s) = "," /\ j <= Len(s) /\ s[j] \in {"}", "]"}
             THEN <<s[j]>> \o RemoveTrailingCommas(From(s, j + 1))
             ELSE <<Head(s)>> \o RemoveTrailingCommas(Tail(s))

\* a normalizer that also drops trailing commas: what _normalize_llm_output is not
NormalizeAndRepair(text) ==
    RemoveTrailingCommas(
        Strip(StripSet(StripClosingFence(StripOpeningFence(Strip(text))), {BT})))

\* _normalize_llm_output(text)
NormalizeLlmOutput(text) ==
    Strip(StripSet(StripClosingFence(StripOpeningFence(Strip(text))), {BT}))

\* text.rfind(c), 1-based: 0 when c is not in the text
RECURSIVE RFind(_, _)
RFind(s, c) == IF s = <<>> \/ s[Len(s)] = c THEN Len(s) ELSE RFind(SubSeq(s, 1, Len(s) - 1), c)

\* _attempt_json_fixup(text): [ok, v]; ok is FALSE where it returns None
AttemptJsonFixup(text) ==
    LET fast == JsonLoads(text)
        first_open == FindSet(text, 1, {"{"})
        last_close == RFind(text, "}")
        candidate == RemoveTrailingCommas(SubSeq(text, first_open, last_close))
        slow == JsonLoads(candidate)
    IN  IF fast.ok THEN [ok |-> fast.v.t # "null", v |-> fast.v]
        ELSE IF first_open > Len(text) THEN [ok |-> FALSE, v |-> None]
        ELSE [ok |-> slow.ok /\ slow.v.t # "null", v |-> slow.v]

Properties == <<"p", "r", "o", "p", "e", "r", "t", "i", "e", "s">>

GeneratedComment ==
    <<"g", "e", "n", "e", "r", "a", "t", "e", "d", "_", "c", "o", "m", "m", "e", "n", "t">>

TestCases == <<"t", "e", "s", "t", "_", "c", "a", "s", "e", "s">>

\* k.startswith(("p1_", "p2_", "p3_")) or k in ["generated_comment"]
IsGradingField(k) ==
    \/ StartsWith(k, <<"p", "1", "_">>)
    \/ StartsWith(k, <<"p", "2", "_">>)
    \/ StartsWith(k, <<"p", "3", "_">>)
    \/ k = GeneratedComment

\* whether parse_and_validate_response replaces the parsed value by
\* parsed["properties"]
IsWrapped(parsed) ==
    /\ IsDict(parsed) /\ Properties \in Keys(parsed) /\ Len(parsed.c) = 1
    /\ IsDict(Get(parsed, Properties))
    /\ \E k \in Keys(Get(parsed, Properties)) : IsGradingField(k)

UnwrapProperties(parsed) == IF IsWrapped(parsed) THEN Get(parsed, Properties) ELSE parsed

\* what parse_and_validate_response makes of a text before it validates:
\* [ok, v]; ok is FALSE where it raises the parse failure
ParseResponse(text) ==
    LET txt == NormalizeLlmOutput(text)
        direct == JsonLoads(txt)
        fixed == AttemptJsonFixup(txt)
    IN  IF direct.ok THEN [ok |-> TRUE, v |-> UnwrapProperties(direct.v)]
        ELSE IF fixed.ok THEN [ok |-> TRUE, v |-> UnwrapProperties(fixed.v)]
        ELSE [ok |-> FALSE, v |-> None]

\* os.path.dirname(path)
Dirname(path) ==
    LET head == SubSeq(path, 1, RFind(path, "/"))
    IN  IF head # <<>> /\ \E i \in 1..Len(head) : head[i] # "/"
        THEN RStripSet(head, {"/"})
        ELSE head

\* whether os.makedirs(os.path.dirname(path), exist_ok=True) and open(path, "w")
\* go through: makedirs("") raises FileNotFoundError, and either call raises
\* OSError when the disk refuses
CanSave(path, disk_ok) == Dirname(path) # <<>> /\ disk_ok

(***************************************************************************)
(* The validators a caller hands to parse_and_validate_response, and the   *)
(* grading models of langchain_integration.py.  Of each grading model the  *)
(* model keeps one score field [name, le] and generated_comment.           *)
(***************************************************************************)
CleanNaming == <<"c", "l", "e", "a", "n", "_", "n", "a", "m", "i", "n", "g">>

P1Task == <<"p", "1", "_", "t", "a", "s", "k">>

A1GradingOutput == <<[name |-> CleanNaming, le |-> 1]>>

A6GradingOutput == <<[name |-> P1Task, le |-> 2]>>

\* grading_model(**d): TRUE where no error is raised
ModelValidate(model, d) ==
    /\ IsDict(d)
    /\ \A i \in 1..Len(model) :
          /\ model[i].name \in Keys(d)
          /\ Get(d, model[i].name).t = "num"
          /\ Get(d, model[i].name).n >= 0
          /\ Get(d, model[i].name).n <= model[i].le
    /\ GeneratedComment \in Keys(d)
    /\ Get(d, GeneratedComment).t = "str"

\* _validator(d) of generate_testcases_with_llm: TRUE where no error is raised
TestCasesValidator(d) ==
    /\ IsDict(d)
    /\ TestCases \in Keys(d)
    /\ Get(d, TestCases).t = "arr"

Validators == {"none", "test_cases", "A1", "A6"}

\* validator(parsed): TRUE where no error is raised
ValidatorAccepts(validator, parsed) ==
    IF validator = "test_cases" THEN TestCasesValidator(parsed)
    ELSE IF validator = "A1" THEN ModelValidate(A1GradingOutput, parsed)
    ELSE IF validator = "A6" THEN ModelValidate(A6GradingOutput, parsed)
    ELSE TRUE

(***************************************************************************)
(* parse_and_validate_response as a state machine                          *)
(*                                                                         *)
(* p_pc is the position in the function.  The response text is what the    *)
(* generator made of the value it meant (p_obj): its serialization,        *)
(* decorated the way generators do (p_deco).                               *)
(***************************************************************************)
VARIABLES p_pc, p_obj, p_deco, p_raw, p_txt, p_parsed, p_validator, p_save, p_disk_ok,
          p_file, p_fixup, p_unwrapped

parse_vars == <<p_pc, p_obj, p_deco, p_raw, p_txt, p_parsed, p_validator, p_save,
                p_disk_ok, p_file, p_fixup, p_unwrapped>>

MaxCommentLen == 2

CommentChars == {"a", ",", "}", DQ}

\* the texts of at most n characters of cs
RECURSIVE TextsUpTo(_, _)
TextsUpTo(cs, n) ==
    IF n = 0 THEN {<<>>}
    ELSE LET shorter == TextsUpTo(cs, n - 1)
         IN  shorter \cup {Append(t, c) : t \in shorter, c \in cs}

Comments == TextsUpTo(CommentChars, MaxCommentLen)

GradingModels == {A1GradingOutput, A6GradingOutput}

\* the objects that conform to a grading model
ScoreObjects(model) ==
    {Obj(<<Item(model[1].name, Num(score)), Item(GeneratedComment, Str(comment))>>) :
        score \in {0, model[1].le}, comment \in Comments}

AllScoreObjects == UNION {ScoreObjects(model) : model \in GradingModels}

\* objects whose keys are fields of a grading model, some fields missing
PartialObjects ==
    {Obj(<<Item(model[1].name, Num(model[1].le))>>) : model \in GradingModels}
    \cup {Obj(<<Item(GeneratedComment, Str(<<"a">>))>>), Obj(<<>>)}

\* objects with a score out of its range
BadScoreObjects ==
    {Obj(<<Item(model[1].name, Num(model[1].le + 1)), Item(GeneratedComment, Str(<<"a">>))>>) :
        model \in GradingModels}

\* the schema-shaped echo: {"properties": inner}
Wrap(inner) == Obj(<<Item(Properties, inner)>>)

TestCaseObjects ==
    {Obj(<<Item(TestCases, Arr(<<>>))>>),
     Obj(<<Item(TestCases, Arr(<<Obj(<<Item(<<"i", "n", "p", "u", "t">>, Str(<<"1">>))>>)>>))>>),
     Obj(<<Item(TestCases, Num(1))>>)}

NonObjects == {Arr(<<Num(1)>>), Num(5), Str(<<"a">>), None, Bool(TRUE)}

MeantValues ==
    AllScoreObjects \cup PartialObjects \cup BadScoreObjects
    \cup {Wrap(x) : x \in AllScoreObjects \cup PartialObjects \cup NonObjects
                         \cup TestCaseObjects}
    \cup TestCaseObjects \cup NonObjects

Decorations == {"clean", "fenced", "fenced_comma", "comma", "prose", "cut", "ticks"}

JsonFence == Fence \o <<"j", "s", "o", "n">>

\* text with a comma put before its closing brace
WithTrailingComma(text) ==
    IF text # <<>> /\ text[Len(text)] = "}"
    THEN SubSeq(text, 1, Len(text) - 1) \o <<",", "}">>
    ELSE text

\* what the generator sends for the clean serialization text
Decorate(deco, text) ==
    IF deco = "fenced" THEN JsonFence \o <<NL>> \o text \o <<NL>> \o Fence
    ELSE IF deco = "fenced_comma"
         THEN JsonFence \o <<NL>> \o WithTrailingComma(text) \o <<NL>> \o Fence
    ELSE IF deco = "comma" THEN WithTrailingComma(text)
    ELSE IF deco = "prose" THEN <<"O", "k", ":", " ">> \o text \o <<NL>>
    ELSE IF deco = "cut" THEN SubSeq(text, 1, Len(text) - 1)
    ELSE IF deco = "ticks" THEN <<BT>> \o text \o <<BT>>
    ELSE text

NoPath == <<>>

SavePaths == {NoPath, <<"l", "o", "g", "/", "r", "a", "w">>, <<"r", "a", "w">>}

NoFile == [exists |-> FALSE, text |-> <<>>]

FileWith(text) == [exists |-> TRUE, text |-> text]

ParseInit ==
    /\ p_pc = "start"
    /\ p_obj \in MeantValues
    /\ p_deco \in Decorations
    /\ p_raw = Decorate(p_deco, JsonDumps(p_obj))
    /\ p_txt = <<>>
    /\ p_parsed = None
    /\ p_validator = "none"
    /\ p_save = NoPath
    /\ p_disk_ok = TRUE
    /\ p_file = NoFile
    /\ p_fixup = FALSE
    /\ p_unwrapped = FALSE

ParseIdle ==
    /\ p_pc = "idle"
    /\ p_obj = None
    /\ p_deco = "clean"
    /\ p_raw = <<>>
    /\ p_txt = <<>>
    /\ p_parsed = None
    /\ p_validator = "none"
    /\ p_save = NoPath
    /\ p_disk_ok = TRUE
    /\ p_file = NoFile
    /\ p_fixup = FALSE
    /\ p_unwrapped = FALSE

\* txt = _normalize_llm_output(response_text)
PNormalize ==
    /\ p_pc = "start"
    /\ p_txt' = NormalizeLlmOutput(p_raw)
    /\ p_pc' = "save"
    /\ UNCHANGED <<p_obj, p_deco, p_raw, p_parsed, p_validator, p_save, p_disk_ok,
                   p_file, p_fixup, p_unwrapped>>

\* if save_raw_to: write the raw text there; a failure is logged and ignored
PSaveRaw ==
    /\ p_pc = "save"
    /\ \E save_raw_to \in SavePaths, disk_ok \in BOOLEAN :
          /\ p_save' = save_raw_to
          /\ p_disk_ok' = disk_ok
          /\ p_file' = IF save_raw_to # NoPath /\ CanSave(save_raw_to, disk_ok)
                       THEN FileWith(p_raw)
                       ELSE p_file
    /\ p_pc' = "parse"
    /\ UNCHANGED <<p_obj, p_deco, p_raw, p_txt, p_parsed, p_validator, p_fixup,
                   p_unwrapped>>

\* parsed = json.loads(txt)
PDirectParse ==
    /\ p_pc = "parse"
    /\ LET r == JsonLoads(p_txt)
       IN  /\ p_parsed' = r.v
           /\ p_pc' = IF r.ok THEN "unwrap" ELSE "fixup"
    /\ UNCHANGED <<p_obj, p_deco, p_raw, p_txt, p_validator, p_save, p_disk_ok, p_file,
                   p_fixup, p_unwrapped>>

\* parsed = _attempt_json_fixup(txt); ValueError when it is None
PFixup ==
    /\ p_pc = "fixup"
    /\ LET r == AttemptJsonFixup(p_txt)
       IN  /\ p_parsed' = r.v
           /\ p_pc' = IF r.ok THEN "unwrap" ELSE "parse_failure"
    /\ p_fixup' = TRUE
    /\ UNCHANGED <<p_obj, p_deco, p_raw, p_txt, p_validator, p_save, p_disk_ok, p_file,
                   p_unwrapped>>

\* the "properties" wrapper is replaced by what it wraps
PUnwrap ==
    /\ p_pc = "unwrap"
    /\ p_parsed' = UnwrapProperties(p_parsed)
    /\ p_unwrapped' = IsWrapped(p_parsed)
    /\ p_pc' = "validate"
    /\ UNCHANGED <<p_obj, p_deco, p_raw, p_txt, p_validator, p_save, p_disk_ok, p_file,
                   p_fixup>>

\* a last step that returns parsed whatever the validator says: what lines
\* 129-139 are not
PValidateUnchecked ==
    /\ p_pc = "validate"
    /\ \E validator \in Validators : p_validator' = validator
    /\ p_pc' = "returned"
    /\ UNCHANGED <<p_obj, p_deco, p_raw, p_txt, p_parsed, p_save, p_disk_ok, p_file,
                   p_fixup, p_unwrapped>>

\* if validator: validator(parsed), ValueError when it raises; return parsed
PValidate ==
    /\ p_pc = "validate"
    /\ \E validator \in Validators :
          /\ p_validator' = validator
          /\ p_pc' = IF ValidatorAccepts(validator, p_parsed)
                     THEN "returned"
                     ELSE "validation_failure"
    /\ UNCHANGED <<p_obj, p_deco, p_raw, p_txt, p_parsed, p_save, p_disk_ok, p_file,
                   p_fixup, p_unwrapped>>

(***************************************************************************)
(* langchain_integration.py: grade_student_project and its retry loop      *)
(***************************************************************************)
\* the grading model classes the module defines at its top level
ModuleClasses ==
    {"A1GradingOutput", "A2GradingOutput", "A4GradingOutput", "A5GradingOutput",
     "A6GradingOutput"}

\* the names the dict literal of get_grading_model evaluates
ModelsDictNames ==
    {"A1GradingOutput", "A2GradingOutput", "A3GradingOutput", "A4GradingOutput",
     "A5GradingOutput", "A6GradingOutput"}

\* the assignment types of the model: two whose grading model the model keeps, and
\* one the dict does not know, which gets the default
AssignmentTypes == {"A1", "A6", "A9"}

\* the names bound in the module when get_grading_model is called: the classes
\* the module defines, or those and A3GradingOutput where an importer of the
\* module has bound that name in it
Namespaces == {ModuleClasses, ModelsDictNames}

\* the entry of the dict for assignment_type, A1GradingOutput where it has none
ModelFor(assignment_type) ==
    IF assignment_type = "A6" THEN A6GradingOutput ELSE A1GradingOutput

\* get_grading_model(assignment_type): [ok, model]; ok is FALSE where the dict
\* literal raises NameError, which it does when it names a class that is not bound
GetGradingModel(namespace, assignment_type) ==
    IF ModelsDictNames \subseteq namespace
    THEN [ok |-> TRUE, model |-> ModelFor(assignment_type)]
    ELSE [ok |-> FALSE, model |-> <<>>]

\* the instance grading_model(**d) builds: the fields of the model, taken from d
ModelInstance(model, d) ==
    Obj([i \in 1..(Len(model) + 1) |->
            IF i <= Len(model) THEN Item(model[i].name, Get(d, model[i].name))
            ELSE Item(GeneratedComment, Get(d, GeneratedComment))])

\* the text cleaning of the loop body: strip, drop a leading ```json and a
\* trailing ```, strip
CleanResponseText(text) ==
    LET a == Strip(text)
        b == IF StartsWith(a, JsonFence) THEN From(a, Len(JsonFence) + 1) ELSE a
        c == IF EndsWith(b, Fence) THEN SubSeq(b, 1, Len(b) - Len(Fence)) ELSE b
    IN  Strip(c)

max_retries == 3

\* what the remote call does when invoked: it raises, or returns a text
Raises == <<"r", "a", "i", "s", "e", "s">>

\* one attempt of the loop body on the remote's response:
\* "ok", "json" (JSONDecodeError) or "other" (any other exception)
AttemptOutcome(model, response) ==
    LET r == JsonLoads(CleanResponseText(response))
    IN  IF response = Raises THEN "other"
        ELSE IF ~r.ok THEN "json"
        ELSE IF ~ModelValidate(model, r.v) THEN "other"
        ELSE "ok"

\* the callers: _grade_student_flow (and the test script) pass student_id, which
\* grade_student_project does not take; "direct" passes the five parameters
Callers == {"flow", "direct"}

VARIABLES g_pc, g_caller, g_type, g_namespace, g_script, g_model, g_attempt, g_calls,
          g_result, g_error, g_response, g_carried

retry_vars == <<g_pc, g_caller, g_type, g_namespace, g_script, g_model, g_attempt, g_calls,
                g_result, g_error, g_response, g_carried>>

GoodA1 == Obj(<<Item(CleanNaming, Num(1)), Item(GeneratedComment, Str(<<"o", "k">>))>>)

GoodA6 == Obj(<<Item(P1Task, Num(2)), Item(GeneratedComment, Str(<<"o", "k">>))>>)

\* what one invocation of the remote call may do
Responses ==
    {Raises,
     JsonDumps(GoodA1),
     Decorate("fenced", JsonDumps(GoodA6)),
     Decorate("cut", JsonDumps(GoodA1)),
     JsonDumps(Obj(<<Item(CleanNaming, Num(2)), Item(GeneratedComment, Str(<<"o", "k">>))>>)),
     JsonDumps(Arr(<<Num(1)>>))}

\* g_script[k] is what the k-th invocation of the remote call does
RetryInit ==
    /\ g_pc = "call"
    /\ g_caller \in Callers
    /\ g_type \in AssignmentTypes
    /\ g_namespace \in Namespaces
    /\ g_script \in [1..max_retries -> Responses]
    /\ g_model = <<>>
    /\ g_attempt = 0
    /\ g_calls = 0
    /\ g_result = None
    /\ g_error = ""
    /\ g_response = <<>>
    /\ g_carried = <<>>

RetryIdle ==
    /\ g_pc = "idle"
    /\ g_caller = "direct"
    /\ g_type = "A1"
    /\ g_namespace = ModuleClasses
    /\ g_script = <<>>
    /\ g_model = <<>>
    /\ g_attempt = 0
    /\ g_calls = 0
    /\ g_result = None
    /\ g_error = ""
    /\ g_response = <<>>
    /\ g_carried = <<>>

\* the call of grade_student_project: the binding of the caller's arguments
GCall ==
    /\ g_pc = "call"
    /\ g_pc' = IF g_caller = "flow" THEN "raised" ELSE "model"
    /\ g_error' = IF g_caller = "flow" THEN "TypeError: unexpected keyword argument"
                  ELSE g_error
    /\ UNCHANGED <<g_caller, g_type, g_namespace, g_script, g_model, g_attempt, g_calls,
                   g_result, g_response, g_carried>>

\* grading_model = get_grading_model(assignment_type), the first statement
GGetGradingModel ==
    /\ g_pc = "model"
    /\ LET gm == GetGradingModel(g_namespace, g_type)
       IN  /\ g_pc' = IF gm.ok THEN "attempt" ELSE "raised"
           /\ g_model' = gm.model
           /\ g_error' = IF gm.ok THEN g_error ELSE "NameError: A3GradingOutput"
    /\ UNCHANGED <<g_caller, g_type, g_namespace, g_script, g_attempt, g_calls, g_result,
                   g_response, g_carried>>

\* one pass of the for loop: the remote call, the cleaning and parse of its
\* text, the construction of the model instance, and the two handlers.  The
\* ValueError of the last pass is built from the exception of that pass, and in
\* the JSONDecodeError handler from response_text: g_carried lists the attempts
\* whose outcome the message gives, g_response the text it quotes
GAttempt ==
    /\ g_pc = "attempt"
    /\ g_attempt < max_retries
    /\ LET response == g_script[g_calls + 1]
           outcome == AttemptOutcome(g_model, response)
           text == CleanResponseText(response)
           last == g_attempt = max_retries - 1
       IN  /\ g_calls' = g_calls + 1
           /\ g_pc' = IF outcome = "ok" THEN "returned"
                      ELSE IF last THEN "raised" ELSE "attempt"
           /\ g_result' = IF outcome = "ok" THEN ModelInstance(g_model, JsonLoads(text).v)
                          ELSE g_result
           /\ g_error' = IF outcome = "ok" \/ ~last THEN g_error
                         ELSE IF outcome = "json" THEN "ValueError: Failed to parse JSON"
                         ELSE "ValueError: Error processing response"
           /\ g_response' = IF outcome = "json" /\ last THEN text ELSE g_response
           /\ g_carried' = IF outcome # "ok" /\ last
                           THEN <<[attempt |-> g_attempt + 1, outcome |-> outcome]>>
                           ELSE g_carried
           /\ g_attempt' = IF outcome = "ok" \/ last THEN g_attempt ELSE g_attempt + 1
    /\ UNCHANGED <<g_caller, g_type, g_namespace, g_script, g_model>>

(***************************************************************************)
(* tools.py: run_standard_tests, the fixture harness                       *)
(*                                                                         *)
(* f_pc is the position in the function; the f_ variables after it are the *)
(* entries of its results dict.  execution_summary is kept as the sequence *)
(* of the verdict words the function appends to it.  A fixture is named by *)
(* its place in the listing of the test directory.  f_build is what the    *)
(* build command did, f_io what each fixture's .out file held and what the *)
(* program did on it, f_runs the number of program executions.             *)
(***************************************************************************)
VARIABLES f_pc, f_i, f_build_successful, f_passed_tests, f_total_tests, f_failed_tests,
          f_test_details, f_summary, f_error, f_runs, f_build, f_io

fixture_vars == <<f_pc, f_i, f_build_successful, f_passed_tests, f_total_tests,
                  f_failed_tests, f_test_details, f_summary, f_error, f_runs, f_build,
                  f_io>>

MaxFixtures == 3

\* what the build command does: it exits 0, exits nonzero (CalledProcessError),
\* runs into the timeout (TimeoutExpired), or its tool is missing (FileNotFoundError)
BuildOutcomes == {"ok", "nonzero", "timeout", "missing_tool"}

\* what an expected-output file holds and what a program prints
FixtureTexts ==
    {<<"1", "5">>, <<"1", "4">>, <<"1", "5", NL>>, <<" ", "1", "5">>}

\* the .out file of a fixture: missing, or a text
Missing == <<"m", "i", "s", "s", "i", "n", "g">>

ExpectedFiles == {Missing} \cup FixtureTexts

\* what running the program on a fixture does: it runs into the timeout, it cannot
\* be launched, or it prints a text
TimedOut == <<"t", "i", "m", "e", "d", "o", "u", "t">>

LaunchFailed == <<"l", "a", "u", "n", "c", "h">>

ProgramRuns == {TimedOut, LaunchFailed} \cup FixtureTexts

FixtureInit ==
    /\ f_pc = "build"
    /\ f_i = 0
    /\ f_build_successful = FALSE
    /\ f_passed_tests = 0
    /\ f_total_tests = 0
    /\ f_failed_tests = <<>>
    /\ f_test_details = <<>>
    /\ f_summary = <<>>
    /\ f_error = ""
    /\ f_runs = 0
    /\ f_build = "none"
    /\ f_io = <<>>

FixtureIdle ==
    /\ f_pc = "idle"
    /\ f_i = 0
    /\ f_build_successful = FALSE
    /\ f_passed_tests = 0
    /\ f_total_tests = 0
    /\ f_failed_tests = <<>>
    /\ f_test_details = <<>>
    /\ f_summary = <<>>
    /\ f_error = ""
    /\ f_runs = 0
    /\ f_build = "none"
    /\ f_io = <<>>

\* 1. the build: subprocess.run(build_command, check=True, timeout=120).  The
\* handler of CalledProcessError and FileNotFoundError reads e.stderr, which a
\* FileNotFoundError does not have: AttributeError leaves the function
FBuild ==
    /\ f_pc = "build"
    /\ \E build \in BuildOutcomes :
          /\ f_build' = build
          /\ f_build_successful' = (build = "ok")
          /\ f_summary' = IF build = "ok" THEN <<"Build successful">>
                          ELSE IF build = "timeout" THEN <<"Build failed: Timeout">>
                          ELSE IF build = "nonzero" THEN <<"Build failed">>
                          ELSE f_summary
          /\ f_pc' = IF build = "ok" THEN "exe"
                     ELSE IF build = "missing_tool" THEN "raised"
                     ELSE "returned"
          /\ f_error' = IF build = "missing_tool" THEN "AttributeError: stderr" ELSE f_error
    /\ UNCHANGED <<f_i, f_passed_tests, f_total_tests, f_failed_tests, f_test_details,
                   f_runs, f_io>>

\* 2. the executable must exist after the build
FCheckExecutable ==
    /\ f_pc = "exe"
    /\ \E exists \in BOOLEAN :
          /\ f_pc' = IF exists THEN "dir" ELSE "returned"
          /\ f_summary' = IF exists THEN f_summary
                          ELSE Append(f_summary, "Executable not found")
    /\ UNCHANGED <<f_io, f_build, f_i, f_build_successful, f_passed_tests, f_total_tests, f_failed_tests,
                   f_test_details, f_error, f_runs>>

\* 3. the test cases directory must exist
FCheckDirectory ==
    /\ f_pc = "dir"
    /\ \E exists \in BOOLEAN :
          /\ f_pc' = IF exists THEN "list" ELSE "returned"
          /\ f_summary' = IF exists THEN f_summary
                          ELSE Append(f_summary, "Test cases directory not found")
    /\ UNCHANGED <<f_io, f_build, f_i, f_build_successful, f_passed_tests, f_total_tests, f_failed_tests,
                   f_test_details, f_error, f_runs>>

\* the .in files are listed and counted; with none the function returns
FListFixtures ==
    /\ f_pc = "list"
    /\ \E n \in 0..MaxFixtures :
          /\ f_total_tests' = n
          /\ f_pc' = IF n = 0 THEN "returned" ELSE "run"
          /\ f_i' = IF n = 0 THEN f_i ELSE 1
          /\ f_summary' = IF n = 0 THEN Append(f_summary, "No test cases found")
                          ELSE Append(f_summary, "Running test cases")
    /\ UNCHANGED <<f_io, f_build, f_build_successful, f_passed_tests, f_failed_tests, f_test_details,
                   f_error, f_runs>>

\* the entry of test_details for a fixture
TestResult(name, passed, error, expected, actual) ==
    [test_name |-> name, passed |-> passed, error |-> error,
     expected_output |-> expected, actual_output |-> actual]

\* a turn of the loop whose timeout handler does not list the fixture as failed:
\* what the handler at lines 1313-1318 is not
FRunFixtureDropsTimeout ==
    /\ f_pc = "run"
    /\ \E expected_file \in ExpectedFiles, run \in ProgramRuns :
          LET expected_output == Strip(expected_file)
              actual_output == Strip(run)
              launched == expected_file # Missing
              printed == launched /\ run \notin {TimedOut, LaunchFailed}
              passed == printed /\ actual_output = expected_output
              verdict == IF ~launched THEN "MISSING OUTPUT FILE"
                         ELSE IF run = TimedOut THEN "TIMEOUT"
                         ELSE IF run = LaunchFailed THEN "ERROR"
                         ELSE IF passed THEN "PASSED"
                         ELSE "FAILED"
              error == IF ~launched THEN "Expected output file missing"
                       ELSE IF run = TimedOut THEN "Timeout (10s)"
                       ELSE IF run = LaunchFailed THEN "launch error"
                       ELSE "None"
          IN  /\ f_passed_tests' = IF passed THEN f_passed_tests + 1 ELSE f_passed_tests
              /\ f_failed_tests' = IF passed \/ (launched /\ run = TimedOut)
                                   THEN f_failed_tests
                                   ELSE Append(f_failed_tests, f_i)
              /\ f_test_details' =
                    Append(f_test_details,
                           TestResult(f_i, passed, error,
                                      IF printed THEN expected_output ELSE <<>>,
                                      IF printed THEN actual_output ELSE <<>>))
              /\ f_summary' = Append(f_summary, verdict)
              /\ f_io' = Append(f_io, [expected |-> expected_file,
                                       run |-> IF launched THEN run ELSE Missing])
              /\ f_runs' = IF launched THEN f_runs + 1 ELSE f_runs
    /\ f_i' = f_i + 1
    /\ f_pc' = IF f_i = f_total_tests THEN "summary" ELSE "run"
    /\ UNCHANGED <<f_build, f_build_successful, f_total_tests, f_error>>

\* a turn of the loop that leaves the loop when the program runs into the
\* timeout: what the handler at lines 1313-1318 is not
FRunFixtureStopsAtTimeout ==
    /\ f_pc = "run"
    /\ \E expected_file \in ExpectedFiles, run \in ProgramRuns :
          LET expected_output == Strip(expected_file)
              actual_output == Strip(run)
              launched == expected_file # Missing
              printed == launched /\ run \notin {TimedOut, LaunchFailed}
              passed == printed /\ actual_output = expected_output
              verdict == IF ~launched THEN "MISSING OUTPUT FILE"
                         ELSE IF run = TimedOut THEN "TIMEOUT"
                         ELSE IF run = LaunchFailed THEN "ERROR"
                         ELSE IF passed THEN "PASSED"
                         ELSE "FAILED"
              error == IF ~launched THEN "Expected output file missing"
                       ELSE IF run = TimedOut THEN "Timeout (10s)"
                       ELSE IF run = LaunchFailed THEN "launch error"
                       ELSE "None"
          IN  /\ f_passed_tests' = IF passed THEN f_passed_tests + 1 ELSE f_passed_tests
              /\ f_failed_tests' = IF passed THEN f_failed_tests
                                   ELSE Append(f_failed_tests, f_i)
              /\ f_test_details' =
                    Append(f_test_details,
                           TestResult(f_i, passed, error,
                                      IF printed THEN expected_output ELSE <<>>,
                                      IF printed THEN actual_output ELSE <<>>))
              /\ f_summary' = Append(f_summary, verdict)
              /\ f_io' = Append(f_io, [expected |-> expected_file,
                                       run |-> IF launched THEN run ELSE Missing])
              /\ f_runs' = IF launched THEN f_runs + 1 ELSE f_runs
    /\ f_i' = f_i + 1
    /\ f_pc' = IF f_i = f_total_tests \/ f_io'[f_i].run = TimedOut
               THEN "summary" ELSE "run"
    /\ UNCHANGED <<f_build, f_build_successful, f_total_tests, f_error>>

\* one turn of the loop over the fixtures: read the expected output, run the
\* program with timeout=10, compare the stripped texts
FRunFixture ==
    /\ f_pc = "run"
    /\ \E expected_file \in ExpectedFiles, run \in ProgramRuns :
          LET expected_output == Strip(expected_file)
              actual_output == Strip(run)
              launched == expected_file # Missing
              printed == launched /\ run \notin {TimedOut, LaunchFailed}
              passed == printed /\ actual_output = expected_output
              verdict == IF ~launched THEN "MISSING OUTPUT FILE"
                         ELSE IF run = TimedOut THEN "TIMEOUT"
                         ELSE IF run = LaunchFailed THEN "ERROR"
                         ELSE IF passed THEN "PASSED"
                         ELSE "FAILED"
              error == IF ~launched THEN "Expected output file missing"
                       ELSE IF run = TimedOut THEN "Timeout (10s)"
                       ELSE IF run = LaunchFailed THEN "launch error"
                       ELSE "None"
          IN  /\ f_passed_tests' = IF passed THEN f_passed_tests + 1 ELSE f_passed_tests
              /\ f_failed_tests' = IF passed THEN f_failed_tests
                                   ELSE Append(f_failed_tests, f_i)
              /\ f_test_details' =
                    Append(f_test_details,
                           TestResult(f_i, passed, error,
                                      IF printed THEN expected_output ELSE <<>>,
                                      IF printed THEN actual_output ELSE <<>>))
              /\ f_summary' = Append(f_summary, verdict)
              /\ f_io' = Append(f_io, [expected |-> expected_file,
                                       run |-> IF launched THEN run ELSE Missing])
              /\ f_runs' = IF launched THEN f_runs + 1 ELSE f_runs
    /\ f_i' = f_i + 1
    /\ f_pc' = IF f_i = f_total_tests THEN "summary" ELSE "run"
    /\ UNCHANGED <<f_build, f_build_successful, f_total_tests, f_error>>

\* the summary statistics are appended and the results returned
FSummary ==
    /\ f_pc = "summary"
    /\ f_summary' = Append(f_summary, "Test Summary")
                    \o (IF f_failed_tests # <<>> THEN <<"Failed tests">> ELSE <<>>)
    /\ f_pc' = "returned"
    /\ UNCHANGED <<f_io, f_build, f_i, f_build_successful, f_passed_tests, f_total_tests, f_failed_tests,
                   f_test_details, f_error, f_runs>>

(***************************************************************************)
(* tools.py: the judge harnesses                                           *)
(***************************************************************************)
PassedTok == <<"P", "a", "s", "s", "e", "d", ":">>

FailedTok == <<"F", "a", "i", "l", "e", "d", ":">>

\* "Passed:" in line and "Failed:" in line
IsSummaryLine(line) == Contains(line, PassedTok) /\ Contains(line, FailedTok)

\* the parse of one line by either harness: parts = line.split(), then
\* int(parts[1]) and int(parts[4]).  tried is FALSE where the line is skipped;
\* passed.ok and total.ok are FALSE where int raises ValueError
LineParse(line) ==
    LET parts == SplitWhite(line)
        tried == IsSummaryLine(line) /\ Len(parts) >= 5
    IN  [tried |-> tried,
         passed |-> IF tried THEN PyInt(parts[2]) ELSE [ok |-> FALSE, v |-> 0],
         total |-> IF tried THEN PyInt(parts[5]) ELSE [ok |-> FALSE, v |-> 0]]

\* the loop of run_judge_tests_multi_phase over the lines of a phase's output:
\* passed is assigned before total is parsed, and the first line that gives
\* both ends the loop
RECURSIVE ExtractMultiPhase(_, _, _)
ExtractMultiPhase(lines, passed, total) ==
    IF lines = <<>> THEN [passed |-> passed, total |-> total]
    ELSE LET r == LineParse(Head(lines))
         IN  IF r.tried /\ r.passed.ok /\ r.total.ok
             THEN [passed |-> r.passed.v, total |-> r.total.v]
             ELSE IF r.tried /\ r.passed.ok
             THEN ExtractMultiPhase(Tail(lines), r.passed.v, total)
             ELSE ExtractMultiPhase(Tail(lines), passed, total)

\* the loop of run_judge_tests_single_phase over the lines of stdout: the results
\* are set only by a line that gives both numbers, and every such line sets them
RECURSIVE ExtractSinglePhase(_, _)
ExtractSinglePhase(lines, found) ==
    IF lines = <<>> THEN found
    ELSE LET r == LineParse(Head(lines))
         IN  IF r.tried /\ r.passed.ok /\ r.total.ok
             THEN ExtractSinglePhase(Tail(lines),
                                     [passed |-> r.passed.v, total |-> r.total.v,
                                      parsed |-> TRUE])
             ELSE ExtractSinglePhase(Tail(lines), found)

\* the output of phase tests: stdout, and stderr after a marker when there is any
PhaseOutput(stdout, stderr) ==
    IF stderr = <<>> THEN stdout
    ELSE stdout \o <<NL, "S", "T", "D", "E", "R", "R", ":", NL>> \o stderr

\* a summary line as the code splits it: "Passed: p out of t Failed: f"
SummaryLine(p, t, f) ==
    PassedTok \o <<" ">> \o p \o <<" ", "o", "u", "t", " ", "o", "f", " ">> \o t
    \o <<" ">> \o FailedTok \o <<" ">> \o f

\* the summary line as the comment in the code gives it: "Passed: 3 out of 5"
DocumentedLine(p, t) == PassedTok \o <<" ">> \o p \o <<" ", "o", "u", "t", " ", "o", "f", " ">> \o t

CompiledOk == <<"C", "o", "m", "p", "i", "l", "e", "d", " ",
                "S", "u", "c", "c", "e", "s", "s", "f", "u", "l", "l", "y">>

\* what the judge program may print on stdout when it runs the tests
JudgeStdouts ==
    {DocumentedLine(<<"3">>, <<"5">>),
     SummaryLine(<<"3">>, <<"5">>, <<"2">>),
     <<"x", NL>> \o SummaryLine(<<"1">>, <<"2">>, <<"1">>) \o <<NL>>
        \o SummaryLine(<<"2">>, <<"2">>, <<"0">>),
     SummaryLine(<<"7">>, <<"5">>, <<"0">>),
     SummaryLine(<<"2">>, <<"x">>, <<"0">>),
     CompiledOk,
     <<>>}

JudgeStderrs == {<<>>, SummaryLine(<<"1">>, <<"1">>, <<"0">>)}

VARIABLES j_pc, j_harness, j_practice, j_dirs, j_phases, j_k, j_phase_results, j_total_passed,
          j_total_tests, j_results, j_log, j_assets, b_used

judge_vars == <<j_pc, j_harness, j_practice, j_dirs, j_phases, j_k, j_phase_results, j_total_passed,
                j_total_tests, j_results, j_log, j_assets, b_used>>

\* whether the judge folder of the practice and judge.sh in it exist
NoAssets == [judge_dir |-> FALSE, judge_sh |-> FALSE]

\* the results dict a judge harness starts from
EmptyResults ==
    [build_successful |-> FALSE, passed_tests |-> 0, total_tests |-> 0,
     failed_tests |-> <<>>, execution_summary |-> "", phase_results |-> <<>>]

\* range(1, 4): the phase directories P1, P2, P3 the harness looks for
PhaseNumbers == 1..3

\* the numbers of ps in ascending order
RECURSIVE Ascending(_)
Ascending(ps) ==
    IF ps = {} THEN <<>>
    ELSE LET m == CHOOSE x \in ps : \A y \in ps : x <= y
         IN  <<m>> \o Ascending(ps \ {m})

\* list(range(passed + 1, total + 1))
RECURSIVE Range(_, _)
Range(a, b) == IF a >= b THEN <<>> ELSE <<a>> \o Range(a + 1, b)

\* the sum of field f over the records of a sequence
RECURSIVE SumOf(_, _)
SumOf(rs, f) == IF rs = <<>> THEN 0 ELSE rs[1][f] + SumOf(Tail(rs), f)

JudgeInit ==
    /\ j_pc = "start"
    /\ j_harness = "run_judge_tests"
    /\ j_practice = "A1"
    /\ j_dirs = {}
    /\ j_phases = <<>>
    /\ j_k = 0
    /\ j_phase_results = <<>>
    /\ j_total_passed = 0
    /\ j_total_tests = 0
    /\ j_results = EmptyResults
    /\ j_log = <<>>
    /\ j_assets = NoAssets
    /\ b_used = "none"

JudgeIdle ==
    /\ j_pc = "idle"
    /\ j_harness = "run_judge_tests"
    /\ j_practice = "A1"
    /\ j_dirs = {}
    /\ j_phases = <<>>
    /\ j_k = 0
    /\ j_phase_results = <<>>
    /\ j_total_passed = 0
    /\ j_total_tests = 0
    /\ j_results = EmptyResults
    /\ j_log = <<>>
    /\ j_assets = NoAssets
    /\ b_used = "none"

\* run_judge_tests: the judge folder and judge.sh are looked for, then the
\* assignment is taken as multi-phase when it is A6 or P1 exists
JStart ==
    /\ j_pc = "start"
    /\ \E practice \in {"A1", "A6"}, judge_dir \in BOOLEAN, judge_sh \in BOOLEAN,
          dirs \in SUBSET PhaseNumbers :
          /\ j_practice' = practice
          /\ j_assets' = [judge_dir |-> judge_dir, judge_sh |-> judge_dir /\ judge_sh]
          /\ j_dirs' = IF judge_dir /\ judge_sh THEN dirs ELSE {}
          /\ j_pc' = IF ~judge_dir \/ ~judge_sh THEN "returned"
                     ELSE IF practice = "A6" \/ 1 \in dirs THEN "stage"
                     ELSE "single_stage"
          /\ j_harness' = IF ~judge_dir \/ ~judge_sh THEN j_harness
                          ELSE IF practice = "A6" \/ 1 \in dirs THEN "multi_phase"
                          ELSE "single_phase"
          /\ j_results' =
                IF ~judge_dir
                THEN [EmptyResults EXCEPT !.execution_summary = "Judge folder not found"]
                ELSE IF ~judge_sh
                THEN [EmptyResults EXCEPT !.execution_summary = "judge.sh not found"]
                ELSE EmptyResults
    /\ UNCHANGED <<j_phases, j_k, j_phase_results, j_total_passed, j_total_tests, j_log,
                   b_used>>

\* the report of the handler of any other exception
ErrorReport(results) == [results EXCEPT !.execution_summary = "Error running judge.sh"]

\* a handler of TimeoutExpired that reports the phases recorded so far without
\* their totals: what the handler at lines 1142-1144 is not
TimeoutReportWithPhases(results) ==
    [results EXCEPT !.execution_summary = "Testing timed out",
                    !.phase_results = j_phase_results]

\* a handler of TimeoutExpired that reports the totals of the phases completed
\* so far: what the handler at lines 1142-1144 is not
TimeoutReportWithTotals(results) ==
    [results EXCEPT !.execution_summary = "Testing timed out",
                    !.passed_tests = j_total_passed,
                    !.total_tests = j_total_tests]

\* the report of the handler of TimeoutExpired
TimeoutReport(results) == [results EXCEPT !.execution_summary = "Testing timed out"]

\* run_judge_tests_multi_phase: temp-P3 is removed, created again and filled with
\* the source files of the project; an exception there ends the run
JStage ==
    /\ j_pc = "stage"
    /\ \E ok \in BOOLEAN :
          /\ j_pc' = IF ok THEN "discover" ELSE "returned"
          /\ j_results' = IF ok THEN j_results ELSE ErrorReport(j_results)
          /\ j_log' = IF ok THEN Append(j_log, <<"stage", 3>>) ELSE j_log
    /\ UNCHANGED <<j_assets, b_used, j_harness, j_practice, j_dirs, j_phases, j_k, j_phase_results, j_total_passed,
                   j_total_tests>>

\* a discovery that lists the phases from the highest to the lowest: what the
\* loop over range(1, 4) at lines 1070-1073 does not do
JDiscoverDescending ==
    /\ j_pc = "discover"
    /\ j_phases' = LET a == IF j_dirs = {} THEN Ascending(PhaseNumbers) ELSE Ascending(j_dirs)
                   IN  [i \in 1..Len(a) |-> a[Len(a) + 1 - i]]
    /\ j_k' = 1
    /\ j_pc' = "select"
    /\ UNCHANGED <<j_assets, b_used, j_harness, j_practice, j_dirs, j_phase_results, j_total_passed, j_total_tests,
                   j_results, j_log>>

\* the phases are the directories P1..P3 that exist, or 1, 2, 3 when none does
JDiscover ==
    /\ j_pc = "discover"
    /\ j_phases' = IF j_dirs = {} THEN Ascending(PhaseNumbers) ELSE Ascending(j_dirs)
    /\ j_k' = 1
    /\ j_pc' = "select"
    /\ UNCHANGED <<j_assets, b_used, j_harness, j_practice, j_dirs, j_phase_results, j_total_passed, j_total_tests,
                   j_results, j_log>>

\* judge.sh -p <phase>, run with no timeout and its exit code ignored: it
\* returns, it cannot be started, or it never returns
JSelect ==
    /\ j_pc = "select"
    /\ \E outcome \in {"done", "oserror", "hangs"} :
          /\ j_pc' = IF outcome = "done" THEN "run"
                     ELSE IF outcome = "oserror" THEN "returned"
                     ELSE "hung"
          /\ j_results' = IF outcome = "oserror" THEN ErrorReport(j_results) ELSE j_results
          /\ j_log' = Append(j_log, <<"select", j_phases[j_k]>>)
    /\ UNCHANGED <<j_assets, b_used, j_harness, j_practice, j_dirs, j_phases, j_k, j_phase_results, j_total_passed,
                   j_total_tests>>

\* the entry of phase_results for a phase
PhaseResult(phase, passed, total, output) ==
    [phase |-> phase, passed |-> passed, total |-> total, output |-> output]

\* a turn of the loop that records a phase whose tests ran into the timeout as
\* a phase without results and goes on: what lines 1088-1144 do not do
JRunTestsSkipsTimedOutPhase ==
    /\ j_pc = "run"
    /\ \/ /\ j_results' = ErrorReport(j_results)
          /\ j_log' = Append(j_log, <<"run", j_phases[j_k]>>)
          /\ j_pc' = "returned"
          /\ UNCHANGED <<j_k, j_phase_results, j_total_passed, j_total_tests>>
       \/ /\ j_phase_results' =
                Append(j_phase_results, PhaseResult(j_phases[j_k], 0, 0, <<>>))
          /\ j_log' = j_log \o <<<<"run", j_phases[j_k]>>, <<"timeout", j_phases[j_k]>>>>
          /\ j_k' = j_k + 1
          /\ j_pc' = IF j_k = Len(j_phases) THEN "aggregate" ELSE "select"
          /\ UNCHANGED <<j_results, j_total_passed, j_total_tests>>
       \/ /\ \E stdout \in JudgeStdouts, stderr \in JudgeStderrs :
                LET phase_output == PhaseOutput(stdout, stderr)
                    r == ExtractMultiPhase(SplitOn(phase_output, NL), 0, 0)
                IN  /\ j_phase_results' =
                          Append(j_phase_results,
                                 PhaseResult(j_phases[j_k], r.passed, r.total, phase_output))
                    /\ j_total_passed' = j_total_passed + r.passed
                    /\ j_total_tests' = j_total_tests + r.total
          /\ j_log' = Append(j_log, <<"run", j_phases[j_k]>>)
          /\ j_k' = j_k + 1
          /\ j_pc' = IF j_k = Len(j_phases) THEN "aggregate" ELSE "select"
          /\ UNCHANGED j_results
    /\ UNCHANGED <<j_assets, b_used, j_harness, j_practice, j_dirs, j_phases>>

\* judge.sh -t with timeout=300, the parse of its output and the entry of the
\* phase in phase_results; TimeoutExpired and any other exception end the run
JRunTests ==
    /\ j_pc = "run"
    /\ \/ /\ \E outcome \in {"timeout", "oserror"} :
                /\ j_results' = IF outcome = "timeout" THEN TimeoutReport(j_results)
                                ELSE ErrorReport(j_results)
                /\ j_log' = IF outcome = "timeout"
                            THEN j_log \o <<<<"run", j_phases[j_k]>>, <<"timeout", j_phases[j_k]>>>>
                            ELSE Append(j_log, <<"run", j_phases[j_k]>>)
          /\ j_pc' = "returned"
          /\ UNCHANGED <<j_k, j_phase_results, j_total_passed, j_total_tests>>
       \/ /\ \E stdout \in JudgeStdouts, stderr \in JudgeStderrs :
                LET phase_output == PhaseOutput(stdout, stderr)
                    r == ExtractMultiPhase(SplitOn(phase_output, NL), 0, 0)
                IN  /\ j_phase_results' =
                          Append(j_phase_results,
                                 PhaseResult(j_phases[j_k], r.passed, r.total, phase_output))
                    /\ j_total_passed' = j_total_passed + r.passed
                    /\ j_total_tests' = j_total_tests + r.total
          /\ j_log' = Append(j_log, <<"run", j_phases[j_k]>>)
          /\ j_k' = j_k + 1
          /\ j_pc' = IF j_k = Len(j_phases) THEN "aggregate" ELSE "select"
          /\ UNCHANGED j_results
    /\ UNCHANGED <<j_assets, b_used, j_harness, j_practice, j_dirs, j_phases>>

\* after the last phase the totals and phase_results go into the results
JAggregate ==
    /\ j_pc = "aggregate"
    /\ j_results' = [j_results EXCEPT !.passed_tests = j_total_passed,
                                      !.total_tests = j_total_tests,
                                      !.phase_results = j_phase_results,
                                      !.build_successful = TRUE,
                                      !.execution_summary = "combined output"]
    /\ j_pc' = "returned"
    /\ UNCHANGED <<j_assets, b_used, j_harness, j_practice, j_dirs, j_phases, j_k, j_phase_results, j_total_passed,
                   j_total_tests, j_log>>

\* run_judge_tests_single_phase: temp-run is removed, created again and filled
JSingleStage ==
    /\ j_pc = "single_stage"
    /\ \E ok \in BOOLEAN :
          /\ j_pc' = IF ok THEN "single_run" ELSE "returned"
          /\ j_results' = IF ok THEN j_results ELSE ErrorReport(j_results)
          /\ j_log' = IF ok THEN Append(j_log, <<"stage", 0>>) ELSE j_log
    /\ UNCHANGED <<j_assets, b_used, j_harness, j_practice, j_dirs, j_phases, j_k, j_phase_results, j_total_passed,
                   j_total_tests>>

\* judge.sh -t with timeout=300 and the parse of its stdout
JSingleRun ==
    /\ j_pc = "single_run"
    /\ \/ \E outcome \in {"timeout", "oserror"} :
             /\ j_results' = IF outcome = "timeout" THEN TimeoutReport(j_results)
                             ELSE ErrorReport(j_results)
             /\ j_log' = IF outcome = "timeout"
                         THEN j_log \o <<<<"run", 0>>, <<"timeout", 0>>>>
                         ELSE Append(j_log, <<"run", 0>>)
       \/ \E stdout \in JudgeStdouts, stderr \in JudgeStderrs :
             LET r == ExtractSinglePhase(SplitOn(stdout, NL),
                                         [passed |-> 0, total |-> 0, parsed |-> FALSE])
             IN  /\ j_results' =
                       [j_results EXCEPT
                           !.passed_tests = r.passed,
                           !.total_tests = r.total,
                           !.failed_tests = Range(r.passed + 1, r.total + 1),
                           !.build_successful =
                               r.parsed \/ (r.total = 0 /\ Contains(stdout, CompiledOk)),
                           !.execution_summary = "transcript"]
                 /\ j_log' = Append(j_log, <<"run", 0>>)
    /\ j_pc' = "returned"
    /\ UNCHANGED <<j_assets, b_used, j_harness, j_practice, j_dirs, j_phases, j_k, j_phase_results, j_total_passed,
                   j_total_tests>>

(***************************************************************************)
(* main_agent.py: _grade_student_flow and the batch loop of run_cli        *)
(***************************************************************************)
\* the keys of config.PRACTICE_CONFIGS
PracticeConfigKeys == {"A1", "A2", "A3", "A4", "A5", "A6"}

\* the value a function returns when it ends without a return statement
NoPair == [is_pair |-> FALSE, tenths |-> 0]

\* a pair (multiplier, description), the multiplier in tenths
Pair(tenths) == [is_pair |-> TRUE, tenths |-> tenths]

\* get_test_failure_impact(failures), for a list of failure_count failure types
\* of which one is critical when has_critical
GetTestFailureImpact(failure_count, has_critical) ==
    IF failure_count = 0 THEN Pair(10)
    ELSE IF has_critical
         THEN IF failure_count >= 3 THEN Pair(2) ELSE Pair(4)
    ELSE IF failure_count >= 4 THEN Pair(5)
    ELSE IF failure_count >= 2 THEN Pair(7)
    ELSE NoPair

\* the failure patterns of analyze_test_failures, two of them critical
FailurePatterns == 7

CriticalPatterns == 2

\* what a list of failures may be: its length, and whether it has a critical one
FailureLists ==
    {[count |-> n, critical |-> FALSE] : n \in 0..(FailurePatterns - CriticalPatterns)}
    \cup {[count |-> n, critical |-> TRUE] : n \in 1..FailurePatterns}

\* _grade_student_flow(student_id, repo_url, assignment_type): [status, error].
\* clone is what clone_student_repo does, tests what build_and_run_tests does,
\* failures what analyze_test_failures finds.  All that comes before the grading
\* call is outside the try statement; the grading call passes student_id
GradeStudentFlow(clone, tests, failures, assignment_type) ==
    IF clone = "raises"
    THEN [status |-> "raised", error |-> "Exception: Failed to clone repository"]
    ELSE IF tests = "raises"
    THEN [status |-> "raised", error |-> "AttributeError: stderr"]
    ELSE IF ~GetTestFailureImpact(failures.count, failures.critical).is_pair
    THEN [status |-> "raised", error |-> "TypeError: cannot unpack NoneType"]
    ELSE IF assignment_type \notin PracticeConfigKeys
    THEN [status |-> "raised", error |-> "KeyError: assignment_type"]
    ELSE [status |-> "returned None", error |-> "Grading failed: TypeError: student_id"]

VARIABLES r_pc, r_ids, r_urls, r_types, r_k, r_graded, r_skipped, r_results, r_error,
          r_flow

batch_vars == <<r_pc, r_ids, r_urls, r_types, r_k, r_graded, r_skipped, r_results, r_error,
                r_flow>>

\* r_flow is what the stages of the last call of _grade_student_flow did; before
\* the first call it is NoFlow
NoFlow == [clone |-> "none", tests |-> "none", failures |-> [count |-> 0, critical |-> FALSE]]

MaxRows == 2

\* the cells of the repository column and of the assignment column: "" is empty
UrlCells == {"", "url"}

TypeCells == {"", "A1", "A9"}

\* the lists of at most n cells
RECURSIVE CellLists(_, _)
CellLists(cells, n) ==
    IF n = 0 THEN {<<>>}
    ELSE LET shorter == CellLists(cells, n - 1)
         IN  shorter \cup {Append(l, c) : l \in shorter, c \in cells}

\* the length of zip(student_ids, github_urls, assignment_types)
Min(a, b) == IF a <= b THEN a ELSE b

ZipLen == Min(Len(r_ids), Min(Len(r_urls), Len(r_types)))

\* the three columns as sheet.col_values gives them, the header row dropped;
\* a student is named by the row of the sheet
BatchInit ==
    /\ r_pc = "loop"
    /\ r_ids \in {[i \in 1..n |-> i] : n \in 0..MaxRows}
    /\ r_urls \in CellLists(UrlCells, MaxRows)
    /\ r_types \in CellLists(TypeCells, MaxRows)
    /\ r_k = 1
    /\ r_graded = <<>>
    /\ r_skipped = <<>>
    /\ r_results = <<>>
    /\ r_error = ""
    /\ r_flow = NoFlow

BatchIdle ==
    /\ r_pc = "idle"
    /\ r_ids = <<>>
    /\ r_urls = <<>>
    /\ r_types = <<>>
    /\ r_k = 1
    /\ r_graded = <<>>
    /\ r_skipped = <<>>
    /\ r_results = <<>>
    /\ r_error = ""
    /\ r_flow = NoFlow

\* a turn of the loop for a row with no repository or no assignment
RSkip ==
    /\ r_pc = "loop"
    /\ r_k <= ZipLen
    /\ r_urls[r_k] = "" \/ r_types[r_k] = ""
    /\ r_skipped' = Append(r_skipped, r_ids[r_k])
    /\ r_k' = r_k + 1
    /\ UNCHANGED <<r_pc, r_ids, r_urls, r_types, r_graded, r_results, r_error, r_flow>>

\* a turn of the loop that calls _grade_student_flow; an exception of the flow
\* leaves the loop and run_cli
RGrade ==
    /\ r_pc = "loop"
    /\ r_k <= ZipLen
    /\ r_urls[r_k] # "" /\ r_types[r_k] # ""
    /\ r_graded' = Append(r_graded, r_ids[r_k])
    /\ \E clone \in {"ok", "raises"}, tests \in {"report", "raises"},
          failures \in FailureLists :
          LET flow == GradeStudentFlow(clone, tests, failures, r_types[r_k])
          IN  /\ r_pc' = IF flow.status = "raised" THEN "raised" ELSE r_pc
              /\ r_error' = IF flow.status = "raised" THEN flow.error ELSE r_error
              /\ r_results' = IF flow.status = "raised" THEN r_results
                              ELSE Append(r_results, flow.error)
              /\ r_k' = IF flow.status = "raised" THEN r_k ELSE r_k + 1
              /\ r_flow' = [clone |-> clone, tests |-> tests, failures |-> failures]
    /\ UNCHANGED <<r_ids, r_urls, r_types, r_skipped>>

\* zip is exhausted: the loop and run_cli end
RFinish ==
    /\ r_pc = "loop"
    /\ r_k > ZipLen
    /\ r_pc' = "done"
    /\ UNCHANGED <<r_ids, r_urls, r_types, r_k, r_graded, r_skipped, r_results, r_error,
                   r_flow>>

(***************************************************************************)
(* The specifications: one per component, the other components at rest     *)
(***************************************************************************)
\* build_and_run_tests after run_judge_tests has returned: the report of the
\* judge is returned unless it has no tests and says the judge folder was not
\* found; then run_standard_tests is called
BChooseHarness ==
    /\ j_pc = "returned"
    /\ b_used' = IF j_results.total_tests > 0
                    \/ j_results.execution_summary # "Judge folder not found"
                 THEN "judge"
                 ELSE "standard"
    /\ j_pc' = "chosen"
    /\ UNCHANGED <<j_assets, j_harness, j_practice, j_dirs, j_phases, j_k, j_phase_results,
                   j_total_passed, j_total_tests, j_results, j_log>>

vars == <<parse_vars, retry_vars, fixture_vars, judge_vars, batch_vars>>

ParseOnly == UNCHANGED <<retry_vars, fixture_vars, judge_vars, batch_vars>>

ParseNext ==
    \/ PNormalize /\ ParseOnly
    \/ PSaveRaw /\ ParseOnly
    \/ PDirectParse /\ ParseOnly
    \/ PFixup /\ ParseOnly
    \/ PUnwrap /\ ParseOnly
    \/ PValidate /\ ParseOnly

ParseSpecInit == ParseInit /\ RetryIdle /\ FixtureIdle /\ JudgeIdle /\ BatchIdle

SpecParse == ParseSpecInit /\ [][ParseNext]_vars

RetryOnly == UNCHANGED <<parse_vars, fixture_vars, judge_vars, batch_vars>>

RetryNext ==
    \/ GCall /\ RetryOnly
    \/ GGetGradingModel /\ RetryOnly
    \/ GAttempt /\ RetryOnly

RetrySpecInit == RetryInit /\ ParseIdle /\ FixtureIdle /\ JudgeIdle /\ BatchIdle

SpecRetry == RetrySpecInit /\ [][RetryNext]_vars

FixtureOnly == UNCHANGED <<parse_vars, retry_vars, judge_vars, batch_vars>>

FixtureNext ==
    \/ FBuild /\ FixtureOnly
    \/ FCheckExecutable /\ FixtureOnly
    \/ FCheckDirectory /\ FixtureOnly
    \/ FListFixtures /\ FixtureOnly
    \/ FRunFixture /\ FixtureOnly
    \/ FSummary /\ FixtureOnly

FixtureSpecInit == FixtureInit /\ ParseIdle /\ RetryIdle /\ JudgeIdle /\ BatchIdle

SpecFixture == FixtureSpecInit /\ [][FixtureNext]_vars

JudgeOnly == UNCHANGED <<parse_vars, retry_vars, fixture_vars, batch_vars>>

JudgeNext ==
    \/ JStart /\ JudgeOnly
    \/ JStage /\ JudgeOnly
    \/ JDiscover /\ JudgeOnly
    \/ JSelect /\ JudgeOnly
    \/ JRunTests /\ JudgeOnly
    \/ JAggregate /\ JudgeOnly
    \/ JSingleStage /\ JudgeOnly
    \/ JSingleRun /\ JudgeOnly
    \/ BChooseHarness /\ JudgeOnly

JudgeSpecInit == JudgeInit /\ ParseIdle /\ RetryIdle /\ FixtureIdle /\ BatchIdle

SpecJudge == JudgeSpecInit /\ [][JudgeNext]_vars

BatchOnly == UNCHANGED <<parse_vars, retry_vars, fixture_vars, judge_vars>>

BatchNext ==
    \/ RSkip /\ BatchOnly
    \/ RGrade /\ BatchOnly
    \/ RFinish /\ BatchOnly

BatchSpecInit == BatchInit /\ ParseIdle /\ RetryIdle /\ FixtureIdle /\ JudgeIdle

SpecBatch == BatchSpecInit /\ [][BatchNext]_vars

(***************************************************************************)
(* Properties of the retry loop, checked under SpecRetry                   *)
(***************************************************************************)
\* whether an attempt on this response fails, for the grading model of the call
AttemptFails(response) == AttemptOutcome(ModelFor(g_type), response) # "ok"

\* C1: when every attempt fails, the remote call is invoked exactly max_retries
\* times and then an error is raised to the caller.  Stated of a call that has
\* ended, made with the five parameters the function takes, whose remote call
\* fails each time it is invoked.
C1_AllFailThenRaise ==
    (/\ g_pc \in {"returned", "raised"}
     /\ g_caller = "direct"
     /\ \A k \in 1..max_retries : AttemptFails(g_script[k]))
    => (g_pc = "raised" /\ g_calls = max_retries)

\* C2: when the first max_retries - 1 attempts fail and the last remote call gives
\* a text that parses and validates, the call returns the model instance built
\* from that response and has invoked the remote call max_retries times
C2_LastAttemptSucceeds ==
    (/\ g_pc \in {"returned", "raised"}
     /\ g_caller = "direct"
     /\ \A k \in 1..(max_retries - 1) : AttemptFails(g_script[k])
     /\ ~AttemptFails(g_script[max_retries]))
    => (/\ g_pc = "returned"
        /\ g_calls = max_retries
        /\ g_result = ModelInstance(ModelFor(g_type),
                                    JsonLoads(CleanResponseText(g_script[max_retries])).v))

(***************************************************************************)
(* Properties of parse_and_validate_response, checked under SpecParse      *)
(***************************************************************************)
\* C3: called with save_raw_to, the function has stored the raw text there before
\* it parses, so from the parse on, in every outcome, the file holds exactly the
\* raw text.  Stated for a disk that accepts the write.
C3_RawTextStored ==
    (p_pc \notin {"start", "save"} /\ p_save # NoPath /\ p_disk_ok)
    => p_file = FileWith(p_raw)

\* the positions of the function after a parse has succeeded
Parsed == {"validate", "returned", "validation_failure"}

\* C4: for every score object that conforms to a grading model, whatever its
\* generated_comment, the fenced serialization with a trailing comma parses to
\* the object the clean serialization parses to
C4_RepairIdempotence ==
    (/\ p_deco = "fenced_comma"
     /\ p_obj \in AllScoreObjects
     /\ p_pc \in Parsed \cup {"parse_failure"})
    => (p_pc \in Parsed /\ p_parsed = ParseResponse(JsonDumps(p_obj)).v)

\* the inner objects with at least one key, each key a field the caller expects:
\* rubric fields of a grading model, or test_cases
FieldObjects == AllScoreObjects \cup (PartialObjects \ {Obj(<<>>)}) \cup TestCaseObjects

\* C5: for every inner object whose keys are fields of the set the caller expects,
\* the text {"properties": inner} parses to the inner object, not to the wrapper
C5_UnwrapsProperties ==
    (/\ p_deco = "clean"
     /\ p_obj \in {Wrap(inner) : inner \in FieldObjects}
     /\ p_pc \in Parsed)
    => p_parsed = Get(p_obj, Properties)

\* C6: the serialization of a score object that conforms to a grading model
\* parses to an object equal to it, the fixup and the unwrap are not triggered,
\* and the object is returned where no validator or the one of its model is given
C6_RoundTrip ==
    (p_deco = "clean" /\ p_obj \in AllScoreObjects)
    => (/\ p_pc \notin {"fixup", "parse_failure"}
        /\ ~p_fixup
        /\ ~p_unwrapped
        /\ p_pc \in {"unwrap"} \cup Parsed => p_parsed = p_obj
        /\ p_pc = "validation_failure" =>
              /\ p_validator # "none"
              /\ p_validator = "A1" => p_obj \notin ScoreObjects(A1GradingOutput)
              /\ p_validator = "A6" => p_obj \notin ScoreObjects(A6GradingOutput))

\* a returned round trip of an object whose comment holds a quote and a brace
C6_Witness ==
    /\ p_pc = "returned"
    /\ p_deco = "clean"
    /\ p_obj \in ScoreObjects(A6GradingOutput)
    /\ Get(p_obj, GeneratedComment).s = <<DQ, "}">>
    /\ p_validator = "A6"
    /\ p_parsed = p_obj

\* C7: the function never returns an object its validator rejects: where the
\* validator raises on the parsed (possibly unwrapped) object, the call ends in
\* the validation failure
C7_NeverReturnsRejected ==
    /\ p_pc = "returned" => ValidatorAccepts(p_validator, p_parsed)
    /\ p_pc = "validation_failure" => ~ValidatorAccepts(p_validator, p_parsed)

\* an unwrapped object its validator rejects, for a field it lacks
C7_Witness ==
    /\ p_pc = "validation_failure"
    /\ p_unwrapped
    /\ p_validator = "A1"
    /\ p_parsed = Obj(<<Item(GeneratedComment, Str(<<"a">>))>>)

(***************************************************************************)
(* Properties of run_standard_tests, checked under SpecFixture             *)
(***************************************************************************)
\* C8: every report run_standard_tests returns has
\* passed_tests + len(failed_tests) = total_tests
C8_CountsAddUp ==
    f_pc = "returned" => f_passed_tests + Len(f_failed_tests) = f_total_tests

\* a report of a full run where one fixture passed, one ran into the timeout and
\* one printed another text than expected
C8_Witness ==
    /\ f_pc = "returned"
    /\ f_total_tests = 3
    /\ f_passed_tests = 1
    /\ \E i, j \in 1..Len(f_summary) : f_summary[i] = "TIMEOUT" /\ f_summary[j] = "FAILED"

(***************************************************************************)
(* Properties of the judge harnesses, checked under SpecJudge              *)
(***************************************************************************)
\* C9: every report run_judge_tests_multi_phase returns has total_tests equal to
\* the sum of total, and passed_tests equal to the sum of passed, over the phases
\* in its phase_results; this includes the reports of the two handlers
C9_TotalsAreSums ==
    (j_pc = "returned" /\ j_harness = "multi_phase")
    => (/\ j_results.total_tests = SumOf(j_results.phase_results, "total")
        /\ j_results.passed_tests = SumOf(j_results.phase_results, "passed"))

\* a report of two phases with different counts
C9_Witness ==
    /\ j_pc = "returned"
    /\ j_harness = "multi_phase"
    /\ Len(j_results.phase_results) = 2
    /\ j_results.phase_results[1].total = 5
    /\ j_results.phase_results[2].total = 2
    /\ j_results.total_tests = 7
    /\ j_results.passed_tests = 4

\* C10: a phase whose transcript is the summary line "Passed: 3 out of 5" gets
\* the phase result passed = 3, total = 5
C10_DocumentedSummaryLine ==
    \A i \in 1..Len(j_phase_results) :
        j_phase_results[i].output = DocumentedLine(<<"3">>, <<"5">>)
        => (j_phase_results[i].passed = 3 /\ j_phase_results[i].total = 5)

\* C11: every phase result the judge harness records has 0 <= passed <= total,
\* and so has the report of the single-phase harness
C11_PassedWithinTotal ==
    /\ \A i \in 1..Len(j_phase_results) :
          /\ 0 <= j_phase_results[i].passed
          /\ j_phase_results[i].passed <= j_phase_results[i].total
    /\ (j_pc = "returned" /\ j_harness = "single_phase")
       => (0 <= j_results.passed_tests /\ j_results.passed_tests <= j_results.total_tests)

\* C12: when the build command exits nonzero or its tool does not exist,
\* run_standard_tests returns a report with build_successful false and the build
\* failure in its summary; it does not raise
C12_BuildFailureReturnsReport ==
    f_build \in {"nonzero", "missing_tool"}
    => (/\ f_pc = "returned"
        /\ ~f_build_successful
        /\ f_summary = <<"Build failed">>)

\* C13: a fixture whose program printed a text is PASSED exactly when that text
\* and the expected text are equal after trailing white space is removed from
\* both; a difference anywhere else, leading white space included, is FAILED
C13_TrailingTrimOnly ==
    \A i \in 1..Len(f_test_details) :
        (f_io[i].expected # Missing /\ f_io[i].run \notin {TimedOut, LaunchFailed})
        => (f_test_details[i].passed
            <=> RStripSet(f_io[i].run, WhiteChars) = RStripSet(f_io[i].expected, WhiteChars))

\* C14: build_and_run_tests uses the judge harness when judge.sh exists for the
\* assignment, and the fixture harness in every case where judge.sh is absent
C14_HarnessSelection ==
    j_pc = "chosen" => (b_used = "judge" <=> j_assets.judge_sh)

\* C15: every external process the judge harness starts is guarded by a timeout,
\* so build_and_run_tests is never blocked for good: until it has returned its
\* report, it can take a further step whatever the external processes do
C15_NeverBlocked == j_pc = "chosen" \/ ENABLED JudgeNext


\* C16: in a batch, a failure while processing one submission ends that
\* submission with a classified result, never with an unhandled exception, and
\* the later submissions are still processed: the loop is never left by an
\* exception, and every call of _grade_student_flow has returned its result.
C16_BatchSurvivesFailures ==
    /\ r_pc # "raised"
    /\ r_pc = "done" => Len(r_results) = Len(r_graded)

\* C17: no submission is dropped from a batch: when the loop has ended, every
\* student row of the sheet was passed to _grade_student_flow or reported as
\* skipped, whatever the lengths of the three columns.
C17_NoRowDropped ==
    r_pc = "done"
    => \A i \in 1..Len(r_ids) :
          \/ \E k \in 1..Len(r_graded) : r_graded[k] = r_ids[i]
          \/ \E k \in 1..Len(r_skipped) : r_skipped[k] = r_ids[i]

\* C18: in run_standard_tests a fixture's failure never aborts the run: every
\* enumerated fixture gets exactly one entry in test_details, in order, whatever
\* happened to the fixtures before it (mismatch, timeout, missing expected
\* output, launch exception), and the loop is left by no exception.
C18_EveryFixtureHasOneEntry ==
    /\ f_pc = "run" => Len(f_test_details) = f_i - 1
    /\ (f_pc \in {"summary", "returned"} /\ f_total_tests > 0)
       => Len(f_test_details) = f_total_tests
    /\ \A i \in 1..Len(f_test_details) : f_test_details[i].test_name = i
    /\ f_pc = "raised" => f_build = "missing_tool"

\* a run of three fixtures has returned: the first ran into the timeout, the
\* second had no expected output, and the third was still run and passed
C18_Witness ==
    /\ f_pc = "returned"
    /\ Len(f_io) = 3
    /\ f_io[1].run = TimedOut
    /\ f_io[2].expected = Missing
    /\ f_test_details[3].passed

\* the verdict the summary gives for the i-th fixture: the lines of the build
\* and of the number of test cases come before the verdicts
VerdictOf(i) == f_summary[i + 2]

\* C19: each fixture is classified as exactly one of PASSED, FAILED (mismatch,
\* with the expected and the actual text recorded), TIMEOUT (the program ran
\* into the timeout) or ERROR (the expected-output file is missing, or the
\* program could not be launched).
C19_FourVerdicts ==
    \A i \in 1..Len(f_io) :
        /\ VerdictOf(i) \in {"PASSED", "FAILED", "TIMEOUT", "ERROR"}
        /\ VerdictOf(i) = "ERROR" <=> (f_io[i].expected = Missing \/ f_io[i].run = LaunchFailed)
        /\ VerdictOf(i) = "TIMEOUT" <=> f_io[i].run = TimedOut
        /\ VerdictOf(i) = "PASSED" <=> f_test_details[i].passed
        /\ VerdictOf(i) = "FAILED"
           => /\ f_test_details[i].expected_output = Strip(f_io[i].expected)
              /\ f_test_details[i].actual_output = Strip(f_io[i].run)
              /\ f_test_details[i].expected_output # f_test_details[i].actual_output

\* C20: a build failure is terminal for the test stage: once the build has
\* failed (nonzero exit, missing tool or timeout) the function has returned its
\* report, no fixture program was executed and the report has total_tests = 0.
C20_BuildFailureIsTerminal ==
    f_build \in {"nonzero", "missing_tool", "timeout"}
    => /\ f_pc = "returned"
       /\ f_runs = 0
       /\ f_total_tests = 0
       /\ f_test_details = <<>>

\* the positions of the log at which the tests of a phase ran into the timeout
TimeoutEntries == {i \in 1..Len(j_log) : j_log[i][1] = "timeout"}

\* C21: in a multi-phase judge run a timeout of the run of the tests of a phase
\* aborts the whole run: the timeout is the last event of the run, no later
\* phase is selected or run, and the harness has returned the timeout report.
C21_TimeoutAbortsRun ==
    (j_harness = "multi_phase" /\ TimeoutEntries # {})
    => /\ TimeoutEntries = {Len(j_log)}
       /\ j_pc \in {"returned", "chosen"}
       /\ j_results.execution_summary = "Testing timed out"
       /\ Len(j_phase_results) = j_k - 1

\* the tests of the first of three phases ran into the timeout and the harness
\* has returned
C21_Witness ==
    /\ j_harness = "multi_phase"
    /\ j_pc = "returned"
    /\ Len(j_phases) = 3
    /\ j_k = 1
    /\ TimeoutEntries # {}

C23_BuildSuccessfulNeedsResult ==
    (/\ j_harness = "multi_phase"
     /\ j_pc \in {"returned", "chosen"}
     /\ j_results.execution_summary = "combined output")
    => (j_results.build_successful
        <=> \E i \in 1..Len(j_results.phase_results) : j_results.phase_results[i].total # 0)

\* C24: judge staging is done per phase: each 'select phase N' action comes
\* directly after the staging directory of phase N was deleted, recreated and
\* filled.
C24_StagingPerPhase ==
    \A i \in 1..Len(j_log) :
        j_log[i][1] = "select"
        => (i > 1 /\ j_log[i - 1] = <<"stage", j_log[i][2]>>)

\* the positions of the log at which a phase was selected
SelectEntries == {i \in 1..Len(j_log) : j_log[i][1] = "select"}

GivesBoth(line, passed, total) ==
    LET r == LineParse(line)
    IN  /\ r.tried
        /\ r.passed.ok /\ r.passed.v = passed
        /\ r.total.ok /\ r.total.v = total

\* C26: the extraction of a phase is atomic per summary line: the recorded
\* passed and total of a phase are both 0, or both are taken from one and the
\* same line of the phase's output.
C26_ExtractionAtomic ==
    \A i \in 1..Len(j_phase_results) :
        LET p == j_phase_results[i]
            lines == SplitOn(p.output, NL)
        IN  \/ p.passed = 0 /\ p.total = 0
            \/ \E n \in 1..Len(lines) : GivesBoth(lines[n], p.passed, p.total)

\* C27: the single-phase and the multi-phase judge harness extract the same
\* passed and total from the same transcript: what the multi-phase harness
\* recorded for a phase is what the single-phase extraction gives for the
\* output of that phase.
C27_SameExtraction ==
    \A i \in 1..Len(j_phase_results) :
        LET p == j_phase_results[i]
            s == ExtractSinglePhase(SplitOn(p.output, NL),
                                    [passed |-> 0, total |-> 0, parsed |-> FALSE])
        IN  s.passed = p.passed /\ s.total = p.total

\* C28: get_test_failure_impact returns a pair (multiplier, description) for
\* every list of failure types that analyze_test_failures can produce, so a call
\* of _grade_student_flow that has a test report is not ended by the unpacking
\* of its result.
C28_ImpactIsAlwaysAPair ==
    (r_flow.clone = "ok" /\ r_flow.tests = "report")
    => /\ GetTestFailureImpact(r_flow.failures.count, r_flow.failures.critical).is_pair
       /\ r_error # "TypeError: cannot unpack NoneType"

\* C29: when the run of the tests of a phase times out in a multi-phase judge
\* run, the returned report keeps nothing of the phases completed before it:
\* passed_tests = 0, total_tests = 0, phase_results is empty and build_successful
\* is false.
C29_TimeoutKeepsNothing ==
    (j_harness = "multi_phase" /\ TimeoutEntries # {})
    => /\ j_results.passed_tests = 0
       /\ j_results.total_tests = 0
       /\ j_results.phase_results = <<>>
       /\ ~j_results.build_successful

\* the tests of the third phase ran into the timeout after two phases were
\* completed with tests passed
C29_Witness ==
    /\ j_harness = "multi_phase"
    /\ j_pc = "returned"
    /\ TimeoutEntries # {}
    /\ j_k = 3
    /\ Len(j_phase_results) = 2
    /\ j_total_passed > 0
    /\ j_total_tests > 0

\* C30: parse_and_validate_response returns a mapping whenever it returns: a
\* text whose top-level JSON value is an array, a number, a string, a boolean
\* or null does not give a normal return.
C30_ReturnsMapping == p_pc = "returned" => IsDict(p_parsed)
=============================================================================
